---------------------------- MODULE Spec2Model ----------------------------
(***************************************************************************)
(* Model of backend/rust_extensions/src/lib.rs (bgc_scanner): the two      *)
(* exported functions scan_records and scan_records_and_features and the   *)
(* helper scan_features_in_range.  A buffer is a sequence of bytes, each   *)
(* byte a one-character string; offsets are 0-based as in the source, so   *)
(* the byte at offset i of buf is buf[i + 1].                              *)
(***************************************************************************)
EXTENDS Integers, Sequences, FiniteSets, TLC

VARIABLES input, io, call

vars == <<input, io, call>>

(***************************************************************************)
(* Bounds of the input space.                                              *)
(***************************************************************************)
MaxRecords == 2
MaxFeatures == 2
MaxStr == 2
MaxTail == 3
MaxChunks == 3

CallIds == {1, 2}

(***************************************************************************)
(* Option<usize>: None is the empty sequence, Some(p) the sequence <<p>>.  *)
(***************************************************************************)
None == <<>>
Some(p) == <<p>>
Unwrap(o) == o[1]

Min(S) == CHOOSE x \in S : \A y \in S : x <= y

SeqsUpTo(S, n) == UNION {[1..k -> S] : k \in 0..n}

RECURSIVE Join(_, _)
Join(seqs, sep) ==
    IF seqs = <<>> THEN <<>>
    ELSE IF Len(seqs) = 1 THEN seqs[1]
    ELSE seqs[1] \o sep \o Join(Tail(seqs), sep)

RECURSIVE Flatten(_)
Flatten(seqs) == IF seqs = <<>> THEN <<>> ELSE seqs[1] \o Flatten(Tail(seqs))

(***************************************************************************)
(* The two anchor patterns (byte-string literals of the source).           *)
(***************************************************************************)
records_pattern == <<"\"", "r", "e", "c", "o", "r", "d", "s", "\"">>

features_pattern == <<"\"", "f", "e", "a", "t", "u", "r", "e", "s", "\"">>

(***************************************************************************)
(* slice.windows(pat.len()).position(|w| w == pat): the offset of the      *)
(* first window of the slice equal to the pattern, None when there is none *)
(* (also when the slice is shorter than the pattern).                      *)
(***************************************************************************)
WindowsPosition(slice, pat) ==
    LET hits == {i \in 0..(Len(slice) - Len(pat)) :
                    SubSeq(slice, i + 1, i + Len(pat)) = pat}
    IN  IF hits = {} THEN None ELSE Some(Min(hits))

(***************************************************************************)
(* slice[from..].iter().position(|&b| b == byte): the offset, relative to  *)
(* from, of the first such byte at or after from.                          *)
(***************************************************************************)
IterPosition(slice, from, byte) ==
    LET hits == {i \in 0..(Len(slice) - from - 1) : slice[from + i + 1] = byte}
    IN  IF hits = {} THEN None ELSE Some(Min(hits))


(***************************************************************************)
(* Input files.  The well-formed documents follow the input format of the  *)
(* interface: a JSON object with a "records" member whose value is an      *)
(* array of objects, each of which may have a "features" member holding an *)
(* array of objects.  A document is rendered from a description, and the   *)
(* description gives the offsets of the elements of the two arrays, which  *)
(* the scans are compared with.                                            *)
(***************************************************************************)
Q == "\""

Key(k) == <<Q, k, Q, ":">>

Str(body) == <<Q>> \o body \o <<Q>>

ObjEmpty == <<"{", "}">>

ObjA == <<"{">> \o Key("a") \o <<"1", "}">>

ObjB == <<"{">> \o Key("b") \o <<"[", "1", ",", "2", "]", "}">>

ObjC == <<"{">> \o Key("c") \o <<"{">> \o Key("d") \o <<"2", "}", "}">>

ObjQ == <<"{">> \o Key("q") \o <<"1", "}">>

FeatX == <<"{">> \o Key("x") \o <<"1", "}">>

FeatY == <<"{">> \o Key("y") \o <<"{">> \o Key("z") \o <<"[", "1", "]", "}", "}">>

FeatN == <<"{">> \o Key("n") \o Str(<<"}", "]">>) \o <<"}">>

FeatureTexts == {FeatX, FeatY, FeatN}

RecordsKey == records_pattern \o <<":">>

FeaturesKey == features_pattern \o <<":">>

\* A record: pre, the elements of its "features" array joined by fsep, post.
\* key tells whether the record object has a member named "features".
Rec(pre, feats, fsep, post, key) ==
    [pre |-> pre, feats |-> feats, fsep |-> fsep, post |-> post, key |-> key]

Plain(text) == Rec(text, <<>>, <<",">>, <<>>, FALSE)

RecText(r) == r.pre \o Join(r.feats, r.fsep) \o r.post

SimpleRecords == {Plain(ObjA), Plain(ObjB), Plain(ObjC)}

FeatureArrays == SeqsUpTo(FeatureTexts, MaxFeatures)

\* {"features":[...]}
RecFeatures(fa) ==
    Rec(<<"{">> \o FeaturesKey \o <<"[">>, fa, <<",">>, <<"]", "}">>, TRUE)

\* { "features" : [ ... ] } with white space between the tokens
RecFeaturesSpaced(fa) ==
    Rec(<<"{", " ">> \o features_pattern \o <<" ", ":", " ", "[", " ">>, fa,
        <<" ", ",", "\n">>, <<" ", "]", " ", "}">>, TRUE)

\* {"a":1,"features":[...],"b":[{"q":1}]}
RecFeaturesMiddle(fa) ==
    Rec(<<"{">> \o Key("a") \o <<"1", ",">> \o FeaturesKey \o <<"[">>, fa, <<",">>,
        <<"]", ",">> \o Key("b") \o <<"[">> \o ObjQ \o <<"]", "}">>, TRUE)

\* {"t":"features","x":[...]}: no member named "features"
RecTypeFeatures(fa) ==
    Plain(<<"{">> \o Key("t") \o features_pattern \o <<",">> \o Key("x")
          \o <<"[">> \o Join(fa, <<",">>) \o <<"]", "}">>)

\* {"t":"features","x":[{"q":1}],"features":[...]}
RecTypeThenFeatures(fa) ==
    Rec(<<"{">> \o Key("t") \o features_pattern \o <<",">> \o Key("x") \o <<"[">>
        \o ObjQ \o <<"]", ",">> \o FeaturesKey \o <<"[">>, fa, <<",">>,
        <<"]", "}">>, TRUE)

\* {"t":"features"} and {"b":[{"q":1}]} and {}
OtherRecords ==
    { Plain(<<"{">> \o Key("t") \o features_pattern \o <<"}">>),
      Plain(<<"{">> \o Key("b") \o <<"[">> \o ObjQ \o <<"]", "}">>),
      Plain(ObjEmpty) }

RichRecords ==
    OtherRecords \cup
    UNION { { RecFeatures(fa), RecFeaturesSpaced(fa), RecFeaturesMiddle(fa),
              RecTypeFeatures(fa), RecTypeThenFeatures(fa) } : fa \in FeatureArrays }

\* The contents of a JSON string: braces, brackets, escaped quotes and
\* escaped backslashes.
StrTokens == { <<"{">>, <<"}">>, <<"[">>, <<"]">>, <<"\\", Q>>, <<"\\", "\\">>, <<"x">> }

StrBodies == { Flatten(s) : s \in SeqsUpTo(StrTokens, MaxStr) }

\* {"n":"<body>"}
RecString(body) == Plain(<<"{">> \o Key("n") \o Str(body) \o <<"}">>)

\* {"features":[{"n":"<body>"}]}
RecFeatureString(body) ==
    RecFeatures(<< <<"{">> \o Key("n") \o Str(body) \o <<"}">> >>)

\* The document around the elements of the "records" array.
Env(pre, sep, post) == [pre |-> pre, sep |-> sep, post |-> post]

\* {"records":[...]}
EnvPlain == Env(<<"{">> \o RecordsKey \o <<"[">>, <<",">>, <<"]", "}">>)

\* {"v":1,"records":[...],"w":[{"q":1}]}
EnvMiddle ==
    Env(<<"{">> \o Key("v") \o <<"1", ",">> \o RecordsKey \o <<"[">>, <<",">>,
        <<"]", ",">> \o Key("w") \o <<"[">> \o ObjQ \o <<"]", "}">>)

\* { "records" : [ ... ] } with white space between the tokens
EnvSpaced ==
    Env(<<"{", " ">> \o records_pattern \o <<" ", ":", " ", "[", "\n">>,
        <<" ", ",", "\n">>, <<" ", "]", " ", "}">>)

\* {"t":"records","records":[...]}
EnvType ==
    Env(<<"{">> \o Key("t") \o records_pattern \o <<",">> \o RecordsKey \o <<"[">>,
        <<",">>, <<"]", "}">>)

\* {"t":"records","x":[{"q":1}],"records":[...]}
EnvTypeArray ==
    Env(<<"{">> \o Key("t") \o records_pattern \o <<",">> \o Key("x") \o <<"[">>
        \o ObjQ \o <<"]", ",">> \o RecordsKey \o <<"[">>, <<",">>, <<"]", "}">>)

Envelopes == {EnvPlain, EnvMiddle, EnvSpaced, EnvType, EnvTypeArray}

RECURSIVE Offsets(_, _, _)
\* The start offsets of texts laid out from offset at, sepLen bytes apart.
Offsets(texts, at, sepLen) ==
    IF texts = <<>> THEN <<>>
    ELSE <<at>> \o Offsets(Tail(texts), at + Len(texts[1]) + sepLen, sepLen)

Ranges(texts, at, sepLen) ==
    LET off == Offsets(texts, at, sepLen)
    IN  [i \in 1..Len(texts) |-> <<off[i], off[i] + Len(texts[i])>>]

\* The file of a well-formed document, the offset of the first byte after the
\* '[' of its "records" array, and the true ranges of its records and of each
\* record's features.
Document(env, recs) ==
    LET texts == [i \in 1..Len(recs) |-> RecText(recs[i])]
        rr    == Ranges(texts, Len(env.pre), Len(env.sep))
    IN  [ bytes |-> env.pre \o Join(texts, env.sep) \o env.post,
          wf    |-> TRUE,
          array |-> Len(env.pre),
          recs  |-> rr,
          feats |-> [i \in 1..Len(recs) |->
                        Ranges(recs[i].feats, rr[i][1] + Len(recs[i].pre),
                               Len(recs[i].fsep))],
          key   |-> [i \in 1..Len(recs) |-> recs[i].key] ]

\* Any other buffer.
Raw(bytes) ==
    [bytes |-> bytes, wf |-> FALSE, array |-> 0, recs |-> <<>>, feats |-> <<>>, key |-> <<>>]

\* Every envelope around up to MaxRecords simple records.
EnvelopeDocs ==
    { Document(e, rs) : e \in Envelopes, rs \in SeqsUpTo(SimpleRecords, MaxRecords) }

\* One record with (or without) features, alone or beside a simple record.
FeatureDocs ==
    UNION { { Document(EnvPlain, <<r>>),
              Document(EnvPlain, <<Plain(ObjA), r>>),
              Document(EnvSpaced, <<r, Plain(ObjC)>>) } : r \in RichRecords }

\* Strings holding braces, brackets and escapes, in a record and in a feature.
StringDocs ==
    UNION { { Document(EnvPlain, <<RecString(b), Plain(ObjA)>>),
              Document(EnvPlain, <<RecFeatureString(b)>>) } : b \in StrBodies }

\* The word records inside longer string values.
RecordsWord == SubSeq(records_pattern, 2, 8)

\* "id":"a records value"
IdMember ==
    <<Q, "i", "d", Q, ":">> \o Str(<<"a", " ">> \o RecordsWord \o <<" ", "v", "a", "l", "u", "e">>)

\* "id":"my \"records": the value is the text my "records, its quote escaped
IdQuotedMember ==
    <<Q, "i", "d", Q, ":">> \o Str(<<"m", "y", " ", "\\", Q>> \o RecordsWord)

\* {"id":"a records value"}
RecId == Plain(<<"{">> \o IdMember \o <<"}">>)

\* {<member>,"x":[{"q":1}],"records":[...]}
EnvAfter(member) ==
    Env(<<"{">> \o member \o <<",">> \o Key("x") \o <<"[">> \o ObjQ \o <<"]", ",">>
        \o RecordsKey \o <<"[">>, <<",">>, <<"]", "}">>)

\* Documents in which the word records occurs, besides the key, only as a
\* part of longer string values: in a record, or in a member before the key.
LongStringDocs ==
    { Document(EnvPlain, <<RecId>>), Document(EnvPlain, <<Plain(ObjA), RecId>>) }
    \cup { Document(EnvAfter(m), rs) :
              m \in {IdMember, IdQuotedMember}, rs \in SeqsUpTo({Plain(ObjA), RecId}, MaxRecords) }

\* An array of objects after the "features" array in the record, and one
\* after the "records" array in the document.
LaterArrayDocs == { Document(EnvMiddle, <<RecFeaturesMiddle(<<FeatX>>)>>) }

WellFormedDocs ==
    EnvelopeDocs \cup FeatureDocs \cup StringDocs \cup LongStringDocs \cup LaterArrayDocs

\* Buffers that are no JSON documents: an opened "records" array, or an
\* opened "features" array in an opened record, followed by arbitrary bytes.
TailBytes == {"{", "}", "[", "]", Q, "\\", "x"}

TailPrefixes ==
    { records_pattern \o <<"[">>,
      records_pattern \o <<"[", "{">> \o features_pattern \o <<"[">> }

TailBuffers ==
    { Raw(p \o t) : p \in TailPrefixes, t \in SeqsUpTo(TailBytes, MaxTail) }

\* Short buffers with and without the anchor and its bracket.
Chunks ==
    { records_pattern, SubSeq(records_pattern, 1, 8), features_pattern,
      <<"[">>, <<"{", "}">>, <<"x">> }

ChunkBuffers == { Raw(Flatten(cs)) : cs \in SeqsUpTo(Chunks, MaxChunks) }

\* Longer malformed buffers: braces that close below depth 0, objects with
\* no comma between them, a missing ':', an unterminated string.
\*   "records"[}{{}}{}
\*   "records"[{"features"[{}{}}}{}]{"features"[{}]}
\*   "records"[{"features"[{}{}}{"features"[}{{}}{}]}]
\*   "records"[{"a":"\"}{"}x{}{"b":"}]
BrokenBuffers ==
    { Raw(records_pattern \o <<"[", "}", "{", "{", "}", "}", "{", "}">>),
      Raw(records_pattern \o <<"[", "{">> \o features_pattern
          \o <<"[", "{", "}", "{", "}", "}", "}", "{", "}", "]", "{">> \o features_pattern
          \o <<"[", "{", "}", "]", "}">>),
      Raw(records_pattern \o <<"[", "{">> \o features_pattern
          \o <<"[", "{", "}", "{", "}", "}", "{">> \o features_pattern
          \o <<"[", "}", "{", "{", "}", "}", "{", "}", "]", "}", "]">>),
      Raw(records_pattern \o <<"[", "{">> \o Key("a") \o <<Q, "\\", Q, "}", "{", Q, "}",
          "x", "{", "}", "{">> \o Key("b") \o <<Q, "}", "]">>) }

\* A well-formed document cut after k bytes, somewhere after the '[' of its
\* "records" array: the records that end within the k bytes, and their
\* features, are the objects closed before the end.
Truncated(d, k) ==
    LET n == Cardinality({i \in 1..Len(d.recs) : d.recs[i][2] <= k})
    IN  [ bytes |-> SubSeq(d.bytes, 1, k), wf |-> FALSE, array |-> d.array,
          recs  |-> SubSeq(d.recs, 1, n),
          feats |-> SubSeq(d.feats, 1, n),
          key   |-> SubSeq(d.key, 1, n) ]

TruncatedDocs ==
    UNION { { Truncated(d, k) : k \in d.array..(Len(d.bytes) - 1) } :
              d \in { Document(EnvPlain, <<Plain(ObjA), RecFeatures(<<FeatX, FeatN>>)>>),
                      Document(EnvMiddle, <<Plain(ObjC)>>) } }

Inputs ==
    WellFormedDocs \cup TailBuffers \cup ChunkBuffers \cup BrokenBuffers \cup TruncatedDocs

(***************************************************************************)
(* What the file system does to a call: the path can be opened or not, and *)
(* reading the opened file delivers all of it (fail_at = None) or fails    *)
(* after fail_at bytes.                                                    *)
(***************************************************************************)
FailPoints(bytes) == {0, Len(bytes) \div 2, Len(bytes)}

IoCases(bytes) ==
    { [exists |-> FALSE, fail_at |-> None], [exists |-> TRUE, fail_at |-> None] }
    \cup { [exists |-> TRUE, fail_at |-> Some(n)] : n \in FailPoints(bytes) }

(***************************************************************************)
(* The state of one call.  The fields carry the names of the locals of the *)
(* source; frame holds the locals of scan_features_in_range while          *)
(* scan_records_and_features is inside that call.  ret is the PyResult:    *)
(* kind "Ok" with the returned vector, or the exception raised.            *)
(***************************************************************************)
Ops == {"scan_records", "scan_records_and_features"}

Pending == [kind |-> "Pending", value |-> <<>>]

Ok(v) == [kind |-> "Ok", value |-> v]

Err(kind) == [kind |-> kind, value |-> <<>>]

NoFrame ==
    [ start |-> 0, end |-> 0, features_pos |-> None,
      positions |-> <<>>, pos |-> 0, brace_depth |-> 0, feature_start |-> None,
      in_string |-> FALSE, escape_next |-> FALSE ]

NewCall(op) ==
    [ op |-> op, pc |-> "open", content |-> <<>>, records_pos |-> None,
      positions |-> <<>>, results |-> <<>>, pos |-> 0, brace_depth |-> 0,
      record_start |-> None, in_string |-> FALSE, escape_next |-> FALSE,
      frame |-> NoFrame, ret |-> Pending ]

IdleCall == [NewCall("scan_records") EXCEPT !.pc = "idle"]

Init ==
    /\ \E f \in Inputs :
          /\ input = [c \in CallIds |-> f]
          /\ \E x \in IoCases(f.bytes) : io = [c \in CallIds |-> x]
    /\ \E op \in Ops : call = [c \in CallIds |-> IF c = 1 THEN NewCall(op) ELSE IdleCall]

\* Variant: brace_depth is a static shared by all calls.
Set_SharedDepth(c, s) ==
    /\ call' = [d \in CallIds |->
                  IF d = c THEN s ELSE [call[d] EXCEPT !.brace_depth = s.brace_depth]]
    /\ UNCHANGED <<input, io>>

\* The locals of call c become s; nothing else changes.
Set(c, s) == call' = [call EXCEPT ![c] = s] /\ UNCHANGED <<input, io>>

(***************************************************************************)
(* File::open(&file_path) with map_err and ?: the file is opened, or the   *)
(* call ends in PyIOError.                                                 *)
(***************************************************************************)
OpenOk(c) ==
    /\ call[c].pc = "open"
    /\ io[c].exists
    /\ Set(c, [call[c] EXCEPT !.pc = "read"])

OpenFail(c) ==
    /\ call[c].pc = "open"
    /\ ~io[c].exists
    /\ Set(c, [call[c] EXCEPT !.pc = "done", !.ret = Err("IOError")])

(***************************************************************************)
(* reader.read_to_end(&mut content) with map_err and ?: content holds the  *)
(* whole file, or the read fails after n bytes and the call ends in        *)
(* PyIOError.                                                              *)
(***************************************************************************)
ReadOk(c) ==
    /\ call[c].pc = "read"
    /\ io[c].fail_at = None
    /\ Set(c, [call[c] EXCEPT !.pc = "find_records", !.content = input[c].bytes])

\* Variant: the read error is dropped and the call goes on with what was read.
ReadFailed_Continue(s, partial) ==
    [s EXCEPT !.pc = "find_records", !.content = partial]

ReadFailed(s, partial) ==
    [s EXCEPT !.pc = "done", !.content = partial, !.ret = Err("IOError")]

ReadFail(c) ==
    /\ call[c].pc = "read"
    /\ io[c].fail_at # None
    /\ Set(c, ReadFailed(call[c], SubSeq(input[c].bytes, 1, Unwrap(io[c].fail_at))))

(***************************************************************************)
(* content.windows(..).position(..).ok_or_else(..)?: the first occurrence  *)
(* of "records", or PyValueError.                                          *)
(***************************************************************************)
FindRecords(s) ==
    LET found == WindowsPosition(s.content, records_pattern)
    IN  IF found = None
        THEN [s EXCEPT !.pc = "done", !.ret = Err("ValueError")]
        ELSE [s EXCEPT !.pc = "find_bracket", !.records_pos = found]

FindRecordsPattern(c) ==
    /\ call[c].pc = "find_records"
    /\ Set(c, FindRecords(call[c]))

(***************************************************************************)
(* content[records_pos..].iter().position(|&b| b == b'[').ok_or_else(..)?  *)
(* and start_pos = records_pos + array_start + 1, the first value of pos.  *)
(***************************************************************************)
\* Variant: the bracket is searched from the start of content.
FindBracket_FromStart(s) ==
    LET array_start == IterPosition(s.content, 0, "[")
    IN  IF array_start = None
        THEN [s EXCEPT !.pc = "done", !.ret = Err("ValueError")]
        ELSE [s EXCEPT !.pc = "scan",
                       !.pos = Unwrap(s.records_pos) + Unwrap(array_start) + 1]

FindBracket(s) ==
    LET array_start == IterPosition(s.content, Unwrap(s.records_pos), "[")
    IN  IF array_start = None
        THEN [s EXCEPT !.pc = "done", !.ret = Err("ValueError")]
        ELSE [s EXCEPT !.pc = "scan",
                       !.pos = Unwrap(s.records_pos) + Unwrap(array_start) + 1]

FindOpeningBracket(c) ==
    /\ call[c].pc = "find_bracket"
    /\ Set(c, FindBracket(call[c]))

\* Variant: the range ends at the closing brace instead of after it.
RecordRange_EndAtBrace(s) == <<Unwrap(s.record_start), s.pos>>

\* scan_records: the tuple pushed when a record closes.
RecordRange(s) == <<Unwrap(s.record_start), s.pos + 1>>

(***************************************************************************)
(* One iteration of the while loop of scan_records (pos < content.len()).  *)
(* brace_depth is an i32 in the source; the buffers of this model are far  *)
(* too short for it to leave the range of an i32.                          *)
(***************************************************************************)
\* Variant: the ']' that closes the array does not end the loop.
ScanRecordsMatch_NoBreak(s, byte) ==
    IF byte = "{"
      THEN [s EXCEPT !.record_start = IF s.brace_depth = 0 THEN Some(s.pos) ELSE @,
                     !.brace_depth = @ + 1,
                     !.pos = @ + 1]
    ELSE IF byte = "}"
      THEN IF s.brace_depth - 1 = 0 /\ s.record_start # None
             THEN [s EXCEPT !.brace_depth = @ - 1,
                            !.positions = Append(@, RecordRange(s)),
                            !.record_start = None,
                            !.pos = @ + 1]
             ELSE [s EXCEPT !.brace_depth = @ - 1, !.pos = @ + 1]
    ELSE [s EXCEPT !.pos = @ + 1]

\* Variant: the depth is tested after the increment, so that record_start is
\* set by the '{' that brings the depth to 0.
ScanRecordsMatch_StartAfterIncrement(s, byte) ==
    IF byte = "{"
      THEN [s EXCEPT !.record_start = IF s.brace_depth + 1 = 0 THEN Some(s.pos) ELSE @,
                     !.brace_depth = @ + 1,
                     !.pos = @ + 1]
    ELSE IF byte = "}"
      THEN IF s.brace_depth - 1 = 0 /\ s.record_start # None
             THEN [s EXCEPT !.brace_depth = @ - 1,
                            !.positions = Append(@, RecordRange(s)),
                            !.record_start = None,
                            !.pos = @ + 1]
             ELSE [s EXCEPT !.brace_depth = @ - 1, !.pos = @ + 1]
    ELSE IF byte = "]" /\ s.brace_depth = 0
      THEN [s EXCEPT !.pc = "done", !.ret = Ok(s.positions)]
    ELSE [s EXCEPT !.pos = @ + 1]

\* The match on the byte, followed by pos += 1 (or by the break).
ScanRecordsMatch(s, byte) ==
    IF byte = "{"
      THEN [s EXCEPT !.record_start = IF s.brace_depth = 0 THEN Some(s.pos) ELSE @,
                     !.brace_depth = @ + 1,
                     !.pos = @ + 1]
    ELSE IF byte = "}"
      THEN IF s.brace_depth - 1 = 0 /\ s.record_start # None
             THEN [s EXCEPT !.brace_depth = @ - 1,
                            !.positions = Append(@, RecordRange(s)),
                            !.record_start = None,
                            !.pos = @ + 1]
             ELSE [s EXCEPT !.brace_depth = @ - 1, !.pos = @ + 1]
    ELSE IF byte = "]" /\ s.brace_depth = 0
      THEN [s EXCEPT !.pc = "done", !.ret = Ok(s.positions)]
    ELSE [s EXCEPT !.pos = @ + 1]

\* Variant: braces and brackets are counted inside strings too.
ScanRecordsIter_NoStrings(s) == ScanRecordsMatch(s, s.content[s.pos + 1])

\* Variant: a backslash escapes the next byte only inside a string.
ScanRecordsIter_EscapeInString(s) ==
    LET byte == s.content[s.pos + 1]
    IN  IF s.escape_next /\ s.in_string
          THEN [s EXCEPT !.escape_next = FALSE, !.pos = @ + 1]
        ELSE IF byte = "\\"
          THEN [s EXCEPT !.escape_next = TRUE, !.pos = @ + 1]
        ELSE IF byte = Q
          THEN [s EXCEPT !.in_string = ~@, !.escape_next = FALSE, !.pos = @ + 1]
        ELSE IF s.in_string
          THEN [s EXCEPT !.pos = @ + 1]
        ELSE ScanRecordsMatch([s EXCEPT !.escape_next = FALSE], byte)

ScanRecordsIter(s) ==
    LET byte == s.content[s.pos + 1]
    IN  IF s.escape_next
          THEN [s EXCEPT !.escape_next = FALSE, !.pos = @ + 1]
        ELSE IF byte = "\\"
          THEN [s EXCEPT !.escape_next = TRUE, !.pos = @ + 1]
        ELSE IF byte = Q
          THEN [s EXCEPT !.in_string = ~@, !.pos = @ + 1]
        ELSE IF s.in_string
          THEN [s EXCEPT !.pos = @ + 1]
        ELSE ScanRecordsMatch(s, byte)

ScanRecordsStep(c) ==
    /\ call[c].op = "scan_records"
    /\ call[c].pc = "scan"
    /\ call[c].pos < Len(call[c].content)
    /\ Set(c, ScanRecordsIter(call[c]))

\* Variant: the end of the buffer before the ']' is an error.
ScanRecordsExit_Error(c) ==
    /\ call[c].op = "scan_records"
    /\ call[c].pc = "scan"
    /\ call[c].pos >= Len(call[c].content)
    /\ Set(c, [call[c] EXCEPT !.pc = "done", !.ret = Err("ValueError")])

\* The loop condition fails: Ok(positions).
ScanRecordsExit(c) ==
    /\ call[c].op = "scan_records"
    /\ call[c].pc = "scan"
    /\ call[c].pos >= Len(call[c].content)
    /\ Set(c, [call[c] EXCEPT !.pc = "done", !.ret = Ok(call[c].positions)])

(***************************************************************************)
(* scan_features_in_range(&content, rec_start, rec_end) is entered: its    *)
(* locals are start and end, record_slice = content[start..end].           *)
(***************************************************************************)
EnterFeatures(s, rec_start, rec_end) ==
    [s EXCEPT !.pc = "features_find",
              !.frame = [NoFrame EXCEPT !.start = rec_start, !.end = rec_end]]

record_slice(s) == SubSeq(s.content, s.frame.start + 1, s.frame.end)

(***************************************************************************)
(* scan_features_in_range returns features to scan_records_and_features,   *)
(* which pushes (rec_start, rec_end, features), clears record_start and    *)
(* goes on with the byte after the record.                                 *)
(***************************************************************************)
\* Variant: the loop goes on at the closing brace of the record again.
ReturnFeatures_NoAdvance(s, features) ==
    [s EXCEPT !.results = Append(@, <<Unwrap(s.record_start), s.frame.end, features>>),
              !.record_start = None,
              !.pc = "scan",
              !.frame = NoFrame]

ReturnFeatures(s, features) ==
    [s EXCEPT !.results = Append(@, <<Unwrap(s.record_start), s.frame.end, features>>),
              !.record_start = None,
              !.pos = @ + 1,
              !.pc = "scan",
              !.frame = NoFrame]

(***************************************************************************)
(* One iteration of the while loop of scan_records_and_features.           *)
(***************************************************************************)
\* Variant: a byte that is no brace and no closing bracket is not consumed.
ScanRecordsAndFeaturesMatch_NoAdvance(s, byte) ==
    IF byte = "{"
      THEN [s EXCEPT !.record_start = IF s.brace_depth = 0 THEN Some(s.pos) ELSE @,
                     !.brace_depth = @ + 1,
                     !.pos = @ + 1]
    ELSE IF byte = "}"
      THEN IF s.brace_depth - 1 = 0 /\ s.record_start # None
             THEN EnterFeatures([s EXCEPT !.brace_depth = @ - 1],
                                Unwrap(s.record_start), s.pos + 1)
             ELSE [s EXCEPT !.brace_depth = @ - 1, !.pos = @ + 1]
    ELSE IF byte = "]" /\ s.brace_depth = 0
      THEN [s EXCEPT !.pc = "done", !.ret = Ok(s.results)]
    ELSE s

\* The match on the byte, followed by pos += 1 (or by the break); a record
\* that closes is handed to scan_features_in_range first.
ScanRecordsAndFeaturesMatch(s, byte) ==
    IF byte = "{"
      THEN [s EXCEPT !.record_start = IF s.brace_depth = 0 THEN Some(s.pos) ELSE @,
                     !.brace_depth = @ + 1,
                     !.pos = @ + 1]
    ELSE IF byte = "}"
      THEN IF s.brace_depth - 1 = 0 /\ s.record_start # None
             THEN EnterFeatures([s EXCEPT !.brace_depth = @ - 1],
                                Unwrap(s.record_start), s.pos + 1)
             ELSE [s EXCEPT !.brace_depth = @ - 1, !.pos = @ + 1]
    ELSE IF byte = "]" /\ s.brace_depth = 0
      THEN [s EXCEPT !.pc = "done", !.ret = Ok(s.results)]
    ELSE [s EXCEPT !.pos = @ + 1]

ScanRecordsAndFeaturesIter(s) ==
    LET byte == s.content[s.pos + 1]
    IN  IF s.escape_next
          THEN [s EXCEPT !.escape_next = FALSE, !.pos = @ + 1]
        ELSE IF byte = "\\"
          THEN [s EXCEPT !.escape_next = TRUE, !.pos = @ + 1]
        ELSE IF byte = Q
          THEN [s EXCEPT !.in_string = ~@, !.pos = @ + 1]
        ELSE IF s.in_string
          THEN [s EXCEPT !.pos = @ + 1]
        ELSE ScanRecordsAndFeaturesMatch(s, byte)

ScanRecordsAndFeaturesStep(c) ==
    /\ call[c].op = "scan_records_and_features"
    /\ call[c].pc = "scan"
    /\ call[c].pos < Len(call[c].content)
    /\ Set(c, ScanRecordsAndFeaturesIter(call[c]))

\* The loop condition fails: Ok(results).
ScanRecordsAndFeaturesExit(c) ==
    /\ call[c].op = "scan_records_and_features"
    /\ call[c].pc = "scan"
    /\ call[c].pos >= Len(call[c].content)
    /\ Set(c, [call[c] EXCEPT !.pc = "done", !.ret = Ok(call[c].results)])

(***************************************************************************)
(* scan_features_in_range: the first occurrence of "features" in the       *)
(* record's slice, or an empty vector.                                     *)
(***************************************************************************)
FindFeatures(s) ==
    LET found == WindowsPosition(record_slice(s), features_pattern)
    IN  IF found = None
        THEN ReturnFeatures(s, <<>>)
        ELSE [s EXCEPT !.pc = "features_bracket", !.frame.features_pos = found]

FindFeaturesPattern(c) ==
    /\ call[c].pc = "features_find"
    /\ Set(c, FindFeatures(call[c]))

(***************************************************************************)
(* scan_features_in_range: the first '[' of the slice at or after          *)
(* features_pos, or an empty vector; pos = features_pos + array_start + 1. *)
(***************************************************************************)
\* Variant: a missing bracket is an error, as it is for the "records" array.
FindFeaturesBracket_Raise(s) ==
    LET array_start == IterPosition(record_slice(s), Unwrap(s.frame.features_pos), "[")
    IN  IF array_start = None
        THEN [s EXCEPT !.pc = "done", !.ret = Err("ValueError")]
        ELSE [s EXCEPT !.pc = "features_scan",
                       !.frame.pos = Unwrap(s.frame.features_pos) + Unwrap(array_start) + 1]

FindFeaturesBracket(s) ==
    LET array_start == IterPosition(record_slice(s), Unwrap(s.frame.features_pos), "[")
    IN  IF array_start = None
        THEN ReturnFeatures(s, <<>>)
        ELSE [s EXCEPT !.pc = "features_scan",
                       !.frame.pos = Unwrap(s.frame.features_pos) + Unwrap(array_start) + 1]

FindFeaturesOpeningBracket(c) ==
    /\ call[c].pc = "features_bracket"
    /\ Set(c, FindFeaturesBracket(call[c]))

\* Variant: abs_end is left relative to the slice.
FeatureRange_EndRelative(f) == <<f.start + Unwrap(f.feature_start), f.pos + 1>>

\* Variant: both offsets are left relative to the slice.
FeatureRange_Relative(f) == <<Unwrap(f.feature_start), f.pos + 1>>

\* scan_features_in_range: abs_start and abs_end of the feature that closes.
FeatureRange(f) == <<f.start + Unwrap(f.feature_start), f.start + f.pos + 1>>

(***************************************************************************)
(* One iteration of the while loop of scan_features_in_range               *)
(* (pos < record_slice.len()); the offsets pushed are absolute.            *)
(***************************************************************************)
\* The match on the byte, followed by pos += 1 (or by the break).
ScanFeaturesMatch(s, byte) ==
    LET f == s.frame
    IN  IF byte = "{"
          THEN [s EXCEPT !.frame.feature_start =
                             IF f.brace_depth = 0 THEN Some(f.pos) ELSE @,
                         !.frame.brace_depth = @ + 1,
                         !.frame.pos = @ + 1]
        ELSE IF byte = "}"
          THEN IF f.brace_depth - 1 = 0 /\ f.feature_start # None
                 THEN [s EXCEPT !.frame.brace_depth = @ - 1,
                                !.frame.positions = Append(@, FeatureRange(f)),
                                !.frame.feature_start = None,
                                !.frame.pos = @ + 1]
                 ELSE [s EXCEPT !.frame.brace_depth = @ - 1, !.frame.pos = @ + 1]
        ELSE IF byte = "]" /\ f.brace_depth = 0
          THEN ReturnFeatures(s, f.positions)
        ELSE [s EXCEPT !.frame.pos = @ + 1]

ScanFeaturesIter(s) ==
    LET f    == s.frame
        byte == record_slice(s)[f.pos + 1]
    IN  IF f.escape_next
          THEN [s EXCEPT !.frame.escape_next = FALSE, !.frame.pos = @ + 1]
        ELSE IF byte = "\\"
          THEN [s EXCEPT !.frame.escape_next = TRUE, !.frame.pos = @ + 1]
        ELSE IF byte = Q
          THEN [s EXCEPT !.frame.in_string = ~@, !.frame.pos = @ + 1]
        ELSE IF f.in_string
          THEN [s EXCEPT !.frame.pos = @ + 1]
        ELSE ScanFeaturesMatch(s, byte)

ScanFeaturesStep(c) ==
    /\ call[c].pc = "features_scan"
    /\ call[c].frame.pos < call[c].frame.end - call[c].frame.start
    /\ Set(c, ScanFeaturesIter(call[c]))

\* The loop condition fails: positions is returned.
ScanFeaturesExit(c) ==
    /\ call[c].pc = "features_scan"
    /\ call[c].frame.pos >= call[c].frame.end - call[c].frame.start
    /\ Set(c, ReturnFeatures(call[c], call[c].frame.positions))

Next ==
    \E c \in CallIds :
        \/ OpenOk(c)
        \/ OpenFail(c)
        \/ ReadOk(c)
        \/ ReadFail(c)
        \/ FindRecordsPattern(c)
        \/ FindOpeningBracket(c)
        \/ ScanRecordsStep(c)
        \/ ScanRecordsExit(c)
        \/ ScanRecordsAndFeaturesStep(c)
        \/ ScanRecordsAndFeaturesExit(c)
        \/ FindFeaturesPattern(c)
        \/ FindFeaturesOpeningBracket(c)
        \/ ScanFeaturesStep(c)
        \/ ScanFeaturesExit(c)

Spec == Init /\ [][Next]_vars

(***************************************************************************)
(* A call is synchronous: once entered it is not suspended, so a step that *)
(* can be taken is taken.                                                  *)
(***************************************************************************)
SpecLive == Init /\ [][Next]_vars /\ WF_vars(Next)

(***************************************************************************)
(* Two calls made at the same time (from two host threads or processes),   *)
(* on the same file or on two files, their steps interleaved in any order. *)
(*   {"records":[{"features":[{}]}]}     {"records":[{"a":1},{"n":"}"}]}   *)
(*   "records"[{"features"[{}}           x                                 *)
(***************************************************************************)
TwoInputs ==
    { Document(EnvPlain, <<RecFeatures(<<ObjEmpty>>)>>),
      Document(EnvPlain, <<Plain(ObjA), RecString(<<"}">>)>>),
      Raw(records_pattern \o <<"[", "{">> \o features_pattern \o <<"[", "{", "}", "}">>),
      Raw(<<"x">>) }

TwoIoCases(bytes) ==
    { [exists |-> FALSE, fail_at |-> None], [exists |-> TRUE, fail_at |-> None],
      [exists |-> TRUE, fail_at |-> Some(Len(bytes) \div 2)] }

InitTwo ==
    /\ input \in [CallIds -> TwoInputs]
    /\ io \in [CallIds -> UNION {TwoIoCases(f.bytes) : f \in TwoInputs}]
    /\ \A c \in CallIds : io[c] \in TwoIoCases(input[c].bytes)
    /\ \E ops \in [CallIds -> Ops] : call = [c \in CallIds |-> NewCall(ops[c])]

SpecTwo == InitTwo /\ [][Next]_vars

(***************************************************************************)
(* Vocabulary of the properties.                                           *)
(***************************************************************************)
Returned(c) == call[c].pc = "done" /\ call[c].ret.kind = "Ok"

\* The record ranges of a returned vector: the tuples of scan_records, the
\* first two components of the tuples of scan_records_and_features.
RecordRangesOf(v) == [i \in 1..Len(v) |-> <<v[i][1], v[i][2]>>]

\* A well-formed document was read in full by a call of op that returned.
ReturnedOn(c, op) == Returned(c) /\ call[c].op = op /\ input[c].wf

\* The byte at a 0-based offset of the file.
ByteAt(c, i) == input[c].bytes[i + 1]

Braced(c, r) == ByteAt(c, r[1]) = "{" /\ ByteAt(c, r[2] - 1) = "}"

\* start < end in every range, and each range ends before the next starts.
Increasing(rs) ==
    /\ \A i \in 1..Len(rs) : rs[i][1] < rs[i][2]
    /\ \A i \in 1..(Len(rs) - 1) : rs[i][2] <= rs[i + 1][1]

Inside(r, outer) == outer[1] <= r[1] /\ r[2] <= outer[2]

\* Every sequence of ranges a call holds: returned, or still being built.
RangeSequences(c) ==
    { RecordRangesOf(call[c].positions), RecordRangesOf(call[c].results),
      RecordRangesOf(call[c].ret.value), call[c].frame.positions }
    \cup { call[c].results[i][3] : i \in 1..Len(call[c].results) }

\* C1: on a well-formed document whose "records" array holds N objects,
\* scan_records succeeds whenever the file is read, and returns N ranges.
C1_ExactlyN ==
    \A c \in CallIds :
        (input[c].wf /\ call[c].op = "scan_records" /\ call[c].pc = "done"
            /\ call[c].ret.kind # "IOError")
        => (call[c].ret.kind = "Ok"
            /\ Len(call[c].ret.value) = Len(input[c].recs))

\* C2: on a well-formed document the i-th range returned by scan_records is
\* the range of the i-th element of the "records" array.
C2_IthElement ==
    \A c \in CallIds :
        ReturnedOn(c, "scan_records")
        => \A i \in 1..Len(call[c].ret.value) :
              i <= Len(input[c].recs) /\ call[c].ret.value[i] = input[c].recs[i]

\* C3: every range emitted, of a record or of a feature, starts at a '{'
\* and ends just after a '}' of the file, on every input.
C3_Braces ==
    \A c \in CallIds :
        \A rs \in RangeSequences(c) : \A i \in 1..Len(rs) : Braced(c, rs[i])

C3_Witness ==
    \E c \in CallIds :
        /\ Returned(c) /\ ~input[c].wf
        /\ call[c].op = "scan_records_and_features"
        /\ \E i \in 1..Len(call[c].ret.value) : call[c].ret.value[i][3] # <<>>

\* C4: in every sequence of ranges, each range has start < end and ends at
\* or before the start of the next one, on every input.
C4_Increasing ==
    \A c \in CallIds : \A rs \in RangeSequences(c) : Increasing(rs)

C4_Witness ==
    \E c \in CallIds :
        /\ Returned(c) /\ ~input[c].wf
        /\ call[c].op = "scan_records_and_features"
        /\ Len(call[c].ret.value) >= 2
        /\ \E i \in 1..Len(call[c].ret.value) : Len(call[c].ret.value[i][3]) >= 2

\* C5: every feature range of scan_records_and_features lies inside the
\* range of its record, on every input.
C5_Contained ==
    \A c \in CallIds :
        /\ \A i \in 1..Len(call[c].results) :
              \A j \in 1..Len(call[c].results[i][3]) :
                  Inside(call[c].results[i][3][j], call[c].results[i])
        /\ \A j \in 1..Len(call[c].frame.positions) :
              Inside(call[c].frame.positions[j], <<call[c].frame.start, call[c].frame.end>>)

C5_Witness ==
    \E c \in CallIds :
        /\ Returned(c)
        /\ \E i \in 1..Len(call[c].results) :
              /\ call[c].results[i][3] # <<>>
              /\ call[c].results[i][1] > 0

\* The range scanner of the call started just inside the "records" array of
\* the document: the bytes before the array hold no earlier "records" text
\* followed by a '['.
ScansRecordsArray(c) ==
    /\ input[c].wf
    /\ call[c].records_pos # None
    /\ LET array_start == IterPosition(input[c].bytes, Unwrap(call[c].records_pos), "[")
       IN  /\ array_start # None
           /\ Unwrap(call[c].records_pos) + Unwrap(array_start) + 1 = input[c].array

\* C6: a record object with no member named "features" yields an empty
\* feature sequence, whatever else it contains.
C6_NoKeyNoFeatures ==
    \A c \in CallIds :
        ReturnedOn(c, "scan_records_and_features")
        => \A i \in 1..Len(call[c].ret.value) :
              ( /\ i <= Len(input[c].recs)
                /\ <<call[c].ret.value[i][1], call[c].ret.value[i][2]>> = input[c].recs[i]
                /\ ~input[c].key[i] )
              => call[c].ret.value[i][3] = <<>>

\* A step of one of the three loops on a byte that lies inside a string: the
\* loop is in a string and the byte is not the unescaped quote that closes it.
InString(c) ==
    \/ /\ call[c].pc = "scan"
       /\ call[c].pos < Len(call[c].content)
       /\ call[c].in_string
       /\ ~(~call[c].escape_next /\ call[c].content[call[c].pos + 1] = Q)
    \/ /\ call[c].pc = "features_scan"
       /\ call[c].frame.pos < call[c].frame.end - call[c].frame.start
       /\ call[c].frame.in_string
       /\ ~(~call[c].frame.escape_next /\ record_slice(call[c])[call[c].frame.pos + 1] = Q)

\* What a byte inside a string leaves alone: the depth, the open object, the
\* ranges emitted, and the loop, which goes on inside the string.
Inert(c) ==
    /\ call'[c].pc = call[c].pc
    /\ call'[c].ret = call[c].ret
    /\ call'[c].brace_depth = call[c].brace_depth
    /\ call'[c].record_start = call[c].record_start
    /\ call'[c].positions = call[c].positions
    /\ call'[c].results = call[c].results
    /\ call'[c].in_string = call[c].in_string
    /\ call'[c].frame.brace_depth = call[c].frame.brace_depth
    /\ call'[c].frame.feature_start = call[c].frame.feature_start
    /\ call'[c].frame.positions = call[c].frame.positions
    /\ call'[c].frame.in_string = call[c].frame.in_string

\* Every record of the array the range scanner walked is returned as one
\* range of its true extent.
RecordsExact ==
    \A c \in CallIds :
        (ScansRecordsArray(c) /\ Returned(c))
        => RecordRangesOf(call[c].ret.value) = input[c].recs

\* C7: a byte between an opening and a closing unescaped quote never changes
\* the depth, never emits a range and never ends the scan, so that the
\* records of the scanned array, whatever braces, brackets, escaped quotes
\* and escaped backslashes their strings hold, come out as single ranges of
\* correct extent.
C7_Strings ==
    [][(\A c \in CallIds : InString(c) => Inert(c)) /\ RecordsExact']_vars

\* A returned record whose string holds a '}' and an escaped quote.
C7_Witness ==
    \E c \in CallIds :
        /\ ScansRecordsArray(c) /\ Returned(c) /\ call[c].ret.value # <<>>
        /\ LET s == call[c].ret.value[1][1]
               e == call[c].ret.value[1][2]
           IN  /\ \A k \in (s + 1)..(e - 1) : ByteAt(c, k) # "{"
               /\ \E k \in (s + 1)..(e - 2) : ByteAt(c, k) = "}"
               /\ \E k \in (s + 1)..(e - 3) : ByteAt(c, k) = "\\" /\ ByteAt(c, k + 1) = Q

\* C8: for a record whose "features" member is an array of M objects,
\* scan_records_and_features returns the ranges of exactly these M objects,
\* in order.
C8_FeaturesExact ==
    \A c \in CallIds :
        ReturnedOn(c, "scan_records_and_features")
        => \A i \in 1..Len(call[c].ret.value) :
              ( /\ i <= Len(input[c].recs)
                /\ <<call[c].ret.value[i][1], call[c].ret.value[i][2]>> = input[c].recs[i]
                /\ input[c].key[i] )
              => call[c].ret.value[i][3] = input[c].feats[i]

\* The offsets at which the bytes of "records" occur in a buffer.
Occurrences(bytes) ==
    { i \in 0..(Len(bytes) - 9) :
        \A k \in 1..9 : bytes[i + k] = records_pattern[k] }

\* No "records" in the buffer, or no '[' at or after its first occurrence.
NoArray(bytes) ==
    \/ Occurrences(bytes) = {}
    \/ \A j \in 0..(Len(bytes) - 1) :
          bytes[j + 1] = "[" => \A h \in Occurrences(bytes) : j < h

\* C9: a call that read its file ends in a value error, with no ranges,
\* exactly when "records" occurs nowhere in the buffer or no '[' occurs at or
\* after its first occurrence.
C9_FormatError ==
    \A c \in CallIds :
        /\ call[c].ret.kind = "ValueError"
           => (call[c].pc = "done" /\ call[c].ret.value = <<>>
               /\ call[c].positions = <<>> /\ call[c].results = <<>>)
        /\ (call[c].pc = "done" /\ io[c].exists /\ io[c].fail_at = None)
           => (call[c].ret.kind = "ValueError" <=> NoArray(input[c].bytes))

\* The anchor is there and a '[' too, but only before the anchor.
C9_Witness ==
    \E c \in CallIds :
        /\ call[c].pc = "done" /\ call[c].ret.kind = "ValueError"
        /\ Occurrences(input[c].bytes) # {}
        /\ \E j \in 1..Len(input[c].bytes) : input[c].bytes[j] = "["

\* The places of a call after the file was read.
AfterRead ==
    {"find_records", "find_bracket", "scan", "features_find", "features_bracket",
     "features_scan"}

\* C10: when the file cannot be opened or the read fails, the call ends in
\* IOError without ranges, and neither the anchor search nor the range scan
\* ever runs; they run on the whole file only.
C10_IOError ==
    \A c \in CallIds :
        /\ (~io[c].exists \/ io[c].fail_at # None)
           => /\ call[c].pc \in {"idle", "open", "read", "done"}
              /\ call[c].pc = "done" => call[c].ret = Err("IOError")
              /\ call[c].records_pos = None /\ call[c].pos = 0
              /\ call[c].positions = <<>> /\ call[c].results = <<>>
        /\ call[c].ret.kind = "IOError" => (~io[c].exists \/ io[c].fail_at # None)
        /\ call[c].pc \in AfterRead => call[c].content = input[c].bytes

\* A read that failed after a part of a file that holds records.
C10_Witness ==
    \E c \in CallIds :
        /\ call[c].pc = "done" /\ call[c].ret.kind = "IOError"
        /\ input[c].recs # <<>>
        /\ call[c].content # <<>> /\ call[c].content # input[c].bytes

C11_Scenario ==
    \A c \in CallIds :
        (input[c] \in LongStringDocs /\ ScansRecordsArray(c) /\ call[c].op = "scan_records"
            /\ call[c].pc = "done")
        => call[c].ret = Ok(input[c].recs)

(***************************************************************************)
(* A call run alone from state s to its end on file f with file-system     *)
(* outcome x: the steps of the actions above, taken one after the other.   *)
(***************************************************************************)
AloneStep(s, f, x) ==
    IF s.pc = "open"
      THEN IF x.exists THEN [s EXCEPT !.pc = "read"]
           ELSE [s EXCEPT !.pc = "done", !.ret = Err("IOError")]
    ELSE IF s.pc = "read"
      THEN IF x.fail_at = None
             THEN [s EXCEPT !.pc = "find_records", !.content = f.bytes]
             ELSE ReadFailed(s, SubSeq(f.bytes, 1, Unwrap(x.fail_at)))
    ELSE IF s.pc = "find_records" THEN FindRecords(s)
    ELSE IF s.pc = "find_bracket" THEN FindBracket(s)
    ELSE IF s.pc = "scan" /\ s.op = "scan_records"
      THEN IF s.pos < Len(s.content) THEN ScanRecordsIter(s)
           ELSE [s EXCEPT !.pc = "done", !.ret = Ok(s.positions)]
    ELSE IF s.pc = "scan"
      THEN IF s.pos < Len(s.content) THEN ScanRecordsAndFeaturesIter(s)
           ELSE [s EXCEPT !.pc = "done", !.ret = Ok(s.results)]
    ELSE IF s.pc = "features_find" THEN FindFeatures(s)
    ELSE IF s.pc = "features_bracket" THEN FindFeaturesBracket(s)
    ELSE IF s.pc = "features_scan"
      THEN IF s.frame.pos < s.frame.end - s.frame.start THEN ScanFeaturesIter(s)
           ELSE ReturnFeatures(s, s.frame.positions)
    ELSE s

RECURSIVE Alone(_, _, _)
Alone(s, f, x) == IF s.pc \in {"done", "idle"} THEN s ELSE Alone(AloneStep(s, f, x), f, x)

\* What a call of op returns when it runs alone.
ResultAlone(op, f, x) == Alone(NewCall(op), f, x).ret

\* C12: each of two calls whose steps interleave in any order, on the same
\* buffer or on different buffers, returns what it returns when run alone,
\* and at every moment is in a state of its run alone.
C12_Independent ==
    \A c \in CallIds :
        /\ Alone(call[c], input[c], io[c]).ret = ResultAlone(call[c].op, input[c], io[c])
        /\ call[c].pc = "done" => call[c].ret = ResultAlone(call[c].op, input[c], io[c])

\* Both calls have returned ranges, one from the middle of the other's scan:
\* different operations on the same file, and the same operation on two files.
C12_Witness ==
    /\ \A c \in CallIds : Returned(c) /\ call[c].ret.value # <<>>
    /\ \/ input[1] = input[2] /\ call[1].op # call[2].op
       \/ input[1] # input[2] /\ call[1].op = call[2].op

\* The offsets at which the bytes of "features" occur in a slice.
FeatureOccurrences(slice) ==
    { i \in 0..(Len(slice) - 10) :
        \A k \in 1..10 : slice[i + k] = features_pattern[k] }

\* No "features" in the slice, or no '[' at or after its first occurrence.
NoFeaturesArray(slice) ==
    \/ FeatureOccurrences(slice) = {}
    \/ \A j \in 0..(Len(slice) - 1) :
          slice[j + 1] = "[" => \A h \in FeatureOccurrences(slice) : j < h

SliceOf(c, r) == SubSeq(input[c].bytes, r[1] + 1, r[2])

\* The nested scan is looking for the anchor of a record that has none.
NestedAbsent(c) ==
    /\ call[c].pc \in {"features_find", "features_bracket"}
    /\ NoFeaturesArray(record_slice(call[c]))

\* The call did not move, or went from the pattern to the bracket, or pushed
\* the record with no features and went on with the byte after the record.
EmptyReturn(c) ==
    \/ call'[c] = call[c]
    \/ /\ call[c].pc = "features_find" /\ call'[c].pc = "features_bracket"
       /\ call'[c].results = call[c].results
       /\ call'[c].ret = Pending
    \/ /\ call'[c].pc = "scan"
       /\ call'[c].results =
             Append(call[c].results, <<call[c].frame.start, call[c].frame.end, <<>>>>)
       /\ call'[c].pos = call[c].pos + 1
       /\ call'[c].ret = Pending

\* No error comes out of the nested scan, and a returned record whose slice
\* holds no "features" array has no features.
NestedNeverFails ==
    \A c \in CallIds :
        /\ (call[c].pc \in {"features_find", "features_bracket", "features_scan"}
              \/ call[c].results # <<>>)
           => call[c].ret.kind \in {"Pending", "Ok"}
        /\ \A i \in 1..Len(call[c].results) :
              NoFeaturesArray(SliceOf(c, call[c].results[i]))
              => call[c].results[i][3] = <<>>

\* C13: when "features" does not occur in the record's slice, or no '['
\* follows its first occurrence there, the record is pushed with its range
\* and no features and the scan goes on after it; no error is raised.
C13_NestedNeverFails ==
    [][(\A c \in CallIds : NestedAbsent(c) => EmptyReturn(c)) /\ NestedNeverFails']_vars

\* A returned record that holds the text "features" and no '[' after it,
\* followed by another record.
C13_Witness ==
    \E c \in CallIds :
        /\ Returned(c) /\ call[c].op = "scan_records_and_features"
        /\ \E i \in 1..(Len(call[c].ret.value) - 1) :
              /\ FeatureOccurrences(SliceOf(c, call[c].ret.value[i])) # {}
              /\ NoFeaturesArray(SliceOf(c, call[c].ret.value[i]))

\* The loop over the records is at a ']' outside a string, not escaped.
AtBracket(c) ==
    /\ call[c].pc = "scan"
    /\ call[c].pos < Len(call[c].content)
    /\ ~call[c].escape_next /\ ~call[c].in_string
    /\ call[c].content[call[c].pos + 1] = "]"

\* At depth 0 the loop ends there and the call returns what it has; at any
\* other depth the loop goes on with the next byte.
Stops(c) ==
    \/ call'[c] = call[c]
    \/ IF call[c].brace_depth = 0
       THEN /\ call'[c].pc = "done"
            /\ call'[c].pos = call[c].pos
            /\ call'[c].ret =
                  Ok(IF call[c].op = "scan_records" THEN call[c].positions ELSE call[c].results)
       ELSE /\ call'[c].pc = "scan"
            /\ call'[c].pos = call[c].pos + 1
            /\ call'[c].positions = call[c].positions
            /\ call'[c].results = call[c].results

\* The loop over the features is at a ']' outside a string, not escaped.
AtFeaturesBracket(c) ==
    /\ call[c].pc = "features_scan"
    /\ call[c].frame.pos < call[c].frame.end - call[c].frame.start
    /\ ~call[c].frame.escape_next /\ ~call[c].frame.in_string
    /\ record_slice(call[c])[call[c].frame.pos + 1] = "]"

FeaturesStops(c) ==
    \/ call'[c] = call[c]
    \/ IF call[c].frame.brace_depth = 0
       THEN /\ call'[c].pc = "scan"
            /\ call'[c].results =
                  Append(call[c].results,
                         <<call[c].frame.start, call[c].frame.end, call[c].frame.positions>>)
       ELSE /\ call'[c].pc = "features_scan"
            /\ call'[c].frame.pos = call[c].frame.pos + 1
            /\ call'[c].frame.positions = call[c].frame.positions

\* Nothing is emitted after the stop: a returned call does not move, and the
\* records pushed, with their features, stay as they are.
Final(c) ==
    /\ call[c].pc = "done" => call'[c] = call[c]
    /\ Len(call'[c].results) >= Len(call[c].results)
    /\ SubSeq(call'[c].results, 1, Len(call[c].results)) = call[c].results

\* Every range returned starts before the byte at which the loop stopped,
\* which is the end of the buffer or a ']' met at depth 0.
StoppedBefore ==
    \A c \in CallIds :
        Returned(c)
        => /\ \A i \in 1..Len(call[c].ret.value) : call[c].ret.value[i][1] < call[c].pos
           /\ call[c].pos < Len(call[c].content)
              => (call[c].content[call[c].pos + 1] = "]" /\ call[c].brace_depth = 0)

\* C14: each of the three loops stops at the first ']' it meets at depth 0,
\* outside a string and not escaped, and emits nothing after it; a ']' met
\* at depth >= 1 does not stop it.
C14_StopsAtBracket ==
    [][ /\ \A c \in CallIds :
              /\ AtBracket(c) => Stops(c)
              /\ AtFeaturesBracket(c) => FeaturesStops(c)
              /\ Final(c)
        /\ StoppedBefore' ]_vars

\* A returned document with objects after the ']' of "records", and a record
\* in it with an object after the ']' of its "features".
C14_Witness ==
    \E c \in CallIds :
        /\ Returned(c) /\ call[c].op = "scan_records_and_features" /\ input[c].wf
        /\ \E k \in (call[c].pos + 1)..(Len(input[c].bytes) - 1) : ByteAt(c, k) = "{"
        /\ \E i \in 1..Len(call[c].ret.value) :
              LET r == call[c].ret.value[i]
              IN  /\ r[3] # <<>>
                  /\ \E k \in r[3][Len(r[3])][2]..(r[2] - 1) : ByteAt(c, k) = "{"

\* The loop over the records has used up the buffer.
AtEnd(c) == call[c].pc = "scan" /\ call[c].pos >= Len(call[c].content)

\* The call returns the ranges it has, whatever is still open.
ReturnsCompleted(c) ==
    \/ call'[c] = call[c]
    \/ /\ call'[c].pc = "done"
       /\ call'[c].ret =
             Ok(IF call[c].op = "scan_records" THEN call[c].positions ELSE call[c].results)

\* The loop over the features has used up the record's slice.
AtFeaturesEnd(c) ==
    /\ call[c].pc = "features_scan"
    /\ call[c].frame.pos >= call[c].frame.end - call[c].frame.start

FeaturesReturnsCompleted(c) ==
    \/ call'[c] = call[c]
    \/ /\ call'[c].pc = "scan"
       /\ call'[c].results =
             Append(call[c].results,
                    <<call[c].frame.start, call[c].frame.end, call[c].frame.positions>>)
       /\ call'[c].ret = Pending

\* A call that has found its array ends without error, no range it returns
\* goes beyond the buffer or starts at the object still open, and on a
\* truncated document it returns exactly the records (and features) that end
\* within the buffer.
CompletedOnly ==
    \A c \in CallIds :
        /\ (call[c].pc = "done" /\ call[c].ret.kind \notin {"IOError", "ValueError"})
           => /\ call[c].ret.kind = "Ok"
              /\ \A i \in 1..Len(call[c].ret.value) :
                    /\ call[c].ret.value[i][2] <= Len(call[c].content)
                    /\ call[c].record_start # <<call[c].ret.value[i][1]>>
        /\ (call[c].pc = "done" /\ input[c] \in TruncatedDocs
              /\ io[c].exists /\ io[c].fail_at = None)
           => /\ call[c].ret.kind = "Ok"
              /\ RecordRangesOf(call[c].ret.value) = input[c].recs
              /\ call[c].op = "scan_records_and_features"
                 => [i \in 1..Len(call[c].ret.value) |-> call[c].ret.value[i][3]]
                    = input[c].feats

\* C15: when the buffer, or the record's slice, ends before a ']' at depth
\* 0, the scan ends without error with the ranges of the objects closed
\* before the end; an object still open is not emitted.
C15_Exhaustion ==
    [][ /\ \A c \in CallIds :
              /\ AtEnd(c) => ReturnsCompleted(c)
              /\ AtFeaturesEnd(c) => FeaturesReturnsCompleted(c)
        /\ CompletedOnly' ]_vars

\* A truncated document returned at the end of the buffer, with a record
\* closed and another still open.
C15_Witness ==
    \E c \in CallIds :
        /\ Returned(c) /\ input[c] \in TruncatedDocs
        /\ call[c].pos >= Len(call[c].content)
        /\ call[c].ret.value # <<>>
        /\ call[c].record_start # None

\* The loop over the records is at the byte that follows an unescaped
\* backslash.
AfterBackslash(c) ==
    /\ call[c].pc = "scan"
    /\ call[c].pos < Len(call[c].content)
    /\ call[c].escape_next

\* The loop over the features is at such a byte.
FeaturesAfterBackslash(c) ==
    /\ call[c].pc = "features_scan"
    /\ call[c].frame.pos < call[c].frame.end - call[c].frame.start
    /\ call[c].frame.escape_next

\* escape_next is set only when the byte before the cursor is a backslash.
EscapeSet ==
    \A c \in CallIds :
        /\ call[c].escape_next => call[c].content[call[c].pos] = "\\"
        /\ call[c].frame.escape_next => record_slice(call[c])[call[c].frame.pos] = "\\"

\* C16: the byte that follows an unescaped backslash, inside or outside a
\* string, only clears escape_next and moves the cursor: the depth, the
\* string state, the open object and the ranges stay, and the loop goes on.
C16_EscapedByte ==
    [][ /\ \A c \in CallIds :
              /\ AfterBackslash(c)
                 => \/ call'[c] = call[c]
                    \/ call'[c] = [call[c] EXCEPT !.escape_next = FALSE, !.pos = @ + 1]
              /\ FeaturesAfterBackslash(c)
                 => \/ call'[c] = call[c]
                    \/ call'[c] = [call[c] EXCEPT !.frame.escape_next = FALSE,
                                                  !.frame.pos = @ + 1]
        /\ EscapeSet' ]_vars

\* Outside a string, after a backslash, at a ']' that would end the scan.
C16_Witness ==
    \E c \in CallIds :
        /\ AfterBackslash(c)
        /\ ~call[c].in_string /\ call[c].brace_depth = 0
        /\ call[c].content[call[c].pos + 1] = "]"

OtherOp(op) ==
    IF op = "scan_records" THEN "scan_records_and_features" ELSE "scan_records"

\* C17: on every buffer, and with the same outcome of the open and of the
\* read, scan_records and scan_records_and_features fail with the same error
\* or return the same record ranges, element by element.
C17_SameRecords ==
    \A c \in CallIds :
        call[c].pc = "done"
        => LET other == ResultAlone(OtherOp(call[c].op), input[c], io[c])
           IN  /\ call[c].ret.kind = other.kind
               /\ RecordRangesOf(call[c].ret.value) = RecordRangesOf(other.value)

\* Several records returned from a buffer that is no JSON document, the
\* first of them with features.
C17_Witness ==
    \E c \in CallIds :
        /\ Returned(c) /\ ~input[c].wf
        /\ call[c].op = "scan_records_and_features"
        /\ Len(call[c].ret.value) >= 2
        /\ call[c].ret.value[1][3] # <<>>

Nested == {"features_find", "features_bracket", "features_scan"}

\* The cursors stay within the buffer and within the record's slice.
CursorsBounded ==
    \A c \in CallIds :
        /\ call[c].pos <= Len(call[c].content)
        /\ call[c].frame.pos <= call[c].frame.end - call[c].frame.start

\* An iteration of an outer loop that goes on with the loop (with the nested
\* scan of the record that closed, if any, finished), and an iteration of the
\* nested loop that goes on with the nested loop.
OuterContinues(c) ==
    /\ call[c].pc \in {"scan"} \cup Nested
    /\ call'[c].pc = "scan"
    /\ call'[c] # call[c]

NestedContinues(c) ==
    /\ call[c].pc = "features_scan"
    /\ call'[c].pc = "features_scan"
    /\ call'[c] # call[c]

Ended(c) ==
    call[c].pc = "done" /\ call[c].ret.kind \in {"Ok", "IOError", "ValueError"}

\* C18: every call ends, with a result or an error; in the three loops the
\* cursor strictly increases at every iteration that does not end the loop,
\* and never passes the end of what is scanned, so that a scan of L bytes
\* takes at most L iterations.
C18_Terminates ==
    /\ [][ /\ \A c \in CallIds :
                 /\ OuterContinues(c) => call'[c].pos > call[c].pos
                 /\ NestedContinues(c) => call'[c].frame.pos > call[c].frame.pos
           /\ CursorsBounded' ]_vars
    /\ <>(\A c \in CallIds : call[c].pc = "idle" \/ Ended(c))

\* A call that ended after both loops had iterated on a buffer that is no
\* JSON document.
C18_Witness ==
    \E c \in CallIds :
        /\ Ended(c) /\ ~input[c].wf
        /\ call[c].pos > input[c].array
        /\ \E r \in 1..Len(call[c].results) : Len(call[c].results[r][3]) >= 2

\* Between two iterations of an outer loop (and before and after the loop),
\* as opposed to within the iteration that hands a closed record to the
\* nested scan.
BetweenIterations(c) == call[c].pc \notin Nested

StartIffOpen ==
    \A c \in CallIds :
        /\ BetweenIterations(c)
           => (call[c].record_start # None <=> call[c].brace_depth >= 1)
        /\ ~BetweenIterations(c)
           => call[c].record_start # None /\ call[c].brace_depth = 0
        /\ call[c].frame.feature_start # None <=> call[c].frame.brace_depth >= 1

\* The byte under the cursor of an outer loop is a '}' outside strings that
\* brings the depth to 0; the same for the nested loop.
ClosesRecord(c) ==
    /\ call[c].pc = "scan" /\ call[c].pos < Len(call[c].content)
    /\ ~call[c].escape_next /\ ~call[c].in_string
    /\ ByteAt(c, call[c].pos) = "}"
    /\ call[c].brace_depth = 1

ClosesFeature(c) ==
    /\ call[c].pc = "features_scan"
    /\ call[c].frame.pos < call[c].frame.end - call[c].frame.start
    /\ ~call[c].frame.escape_next /\ ~call[c].frame.in_string
    /\ ByteAt(c, call[c].frame.start + call[c].frame.pos) = "}"
    /\ call[c].frame.brace_depth = 1

\* The range of the record is pushed, or handed to the nested scan to be
\* pushed with its features.
EmitsRecord(c) ==
    IF call[c].op = "scan_records"
    THEN call'[c].positions =
             Append(call[c].positions, <<Unwrap(call[c].record_start), call[c].pos + 1>>)
    ELSE /\ call'[c].pc = "features_find"
         /\ call'[c].frame.start = Unwrap(call[c].record_start)
         /\ call'[c].frame.end = call[c].pos + 1

EmitsFeature(c) ==
    call'[c].frame.positions =
        Append(call[c].frame.positions,
               << call[c].frame.start + Unwrap(call[c].frame.feature_start),
                  call[c].frame.start + call[c].frame.pos + 1 >>)

\* C19: between the iterations of each loop, on every buffer (the depth may
\* be negative), the start of the current object is set exactly when the
\* depth is at least 1; so every '}' that brings the depth to 0 finds a start
\* and emits a range.
C19_StartIffOpen ==
    [][ /\ StartIffOpen'
        /\ \A c \in CallIds :
              /\ ClosesRecord(c) /\ call'[c] # call[c]
                 => call[c].record_start # None /\ EmitsRecord(c)
              /\ ClosesFeature(c) /\ call'[c] # call[c]
                 => call[c].frame.feature_start # None /\ EmitsFeature(c) ]_vars

\* A range emitted after the depth has been negative: the array begins
\* with "}{" and the object that follows is returned.
C19_Witness ==
    \E c \in CallIds :
        /\ Returned(c) /\ call[c].op = "scan_records"
        /\ call[c].ret.value # <<>>
        /\ LET start == call[c].ret.value[1][1]
           IN  /\ start >= 3
               /\ ByteAt(c, start - 3) = "["
               /\ ByteAt(c, start - 2) = "}"
               /\ ByteAt(c, start - 1) = "{"

=============================================================================
